---- MODULE Spec2Model ----
(***************************************************************************)
(* Model of scripts/add_bbox_to_arrow.py: the per-row bounding-box scan    *)
(* compute_bbox_from_geoarrow_polygon, and its caller add_bbox_columns     *)
(* with the files it reads and writes.                                     *)
(*                                                                         *)
(* Encoding of Python values.                                              *)
(*   float     an integer; finite coordinates are 0..MaxCoord, and the     *)
(*             three non-finite floats the code uses are the distinguished *)
(*             integers PInf, NInf and NaN.  Floats are compared only      *)
(*             through FLt/FGt/FLe, which give IEEE answers (every         *)
(*             ordered comparison with NaN is False).                      *)
(*   Optional  None is <<>>, a present value v is <<v>>.                   *)
(*   list      a sequence.                                                 *)
(*   vertex    the record [x |-> float, y |-> float] (vertex['x']).        *)
(***************************************************************************)
EXTENDS Integers, Sequences, FiniteSets, TLC

\* ------------------------------------------------------------------ bounds
\* Largest finite coordinate value drawn for a vertex.
MaxCoord == 1
\* Largest number of nodes (rows, polygons, rings, vertices, None entries)
\* of a geometry column handed directly to the scan.
MaxNodes == 6
\* Largest number of nodes of the geometry column of an input table.
MaxTableNodes == 4
\* Largest number of runs of the script on the same files.
MaxRuns == 2

\* ------------------------------------------------------------ float values
PInf == 1000
NInf == -1000
NaN == 7777

Finite == 0..MaxCoord
Coord == Finite \cup {NaN}

\* Python's a < b, a > b, a <= b on floats.
FLt(a, b) == a # NaN /\ b # NaN /\ a < b
FGt(a, b) == a # NaN /\ b # NaN /\ a > b
FLe(a, b) == a # NaN /\ b # NaN /\ a <= b

\* --------------------------------------------------------- optional values
None == <<>>
Some(v) == <<v>>
IsNone(o) == o = None
Get(o) == o[1]

\* ------------------------------------------------- input geometry columns
\* Levels of the GeoArrow nesting: a column is a list of cells (level 0),
\* a cell a list of polygons (1), a polygon a list of rings (2), a ring a
\* list of vertices (3).  Every entry at every level may be None.
VertexLevel == 3
Vertices == {[x |-> a, y |-> b] : a \in Coord, b \in Coord}

\* The shapes of the inputs are enumerated with one placeholder vertex, and
\* the vertices of a shape are then filled in from Vertices.
Placeholder == [x |-> 0, y |-> 0]

\* The lists made of exactly 0, 1, ..., w nodes in all (entry i + 1 holds the
\* lists of i nodes), given nodes[j], the entries made of exactly j nodes.
\* T holds the lists of fewer than k nodes.
RECURSIVE ExtendLists(_, _, _, _)
ExtendLists(nodes, T, k, w) ==
    IF k > w THEN T
    ELSE ExtendLists(nodes,
                     Append(T, UNION {{Append(l, n) : n \in nodes[j], l \in T[k - j + 1]}
                                      : j \in 1..k}),
                     k + 1, w)
ListsByWeight(nodes, w) == ExtendLists(nodes, <<{<<>>}>>, 1, w)

\* The entries of one level by weight, given the lists of the level below.
NodesByWeight(lists) ==
    [j \in 1..Len(lists) |->
        (IF j = 1 THEN {None} ELSE {}) \cup {Some(l) : l \in lists[j]}]

VertexNodes ==
    [j \in 1..MaxNodes |-> IF j = 1 THEN {None, Some(Placeholder)} ELSE {}]
RingShapes == ListsByWeight(VertexNodes, MaxNodes - 3)
PolygonShapes == ListsByWeight(NodesByWeight(RingShapes), MaxNodes - 2)
MultiPolygonShapes == ListsByWeight(NodesByWeight(PolygonShapes), MaxNodes - 1)
ColumnShapes == ListsByWeight(NodesByWeight(MultiPolygonShapes), MaxNodes)

\* The column shapes made of at most w nodes.
ShapesUpTo(w) == UNION {ColumnShapes[k + 1] : k \in 0..w}

\* The number of vertices that are not None in a list of the given level.
RECURSIVE NumVertices(_, _)
NumVertices(level, list) ==
    IF list = <<>> THEN 0
    ELSE (IF IsNone(Head(list)) THEN 0
          ELSE IF level = VertexLevel THEN 1
          ELSE NumVertices(level + 1, Get(Head(list))))
         + NumVertices(level, Tail(list))

\* The list with its vertices replaced, in visiting order, by labs[from + 1],
\* labs[from + 2], ...
RECURSIVE Fill(_, _, _, _)
Fill(level, list, labs, from) ==
    IF list = <<>> THEN <<>>
    ELSE LET h == Head(list)
             first == IF IsNone(h) THEN None
                      ELSE IF level = VertexLevel THEN Some(labs[from + 1])
                      ELSE Some(Fill(level + 1, Get(h), labs, from))
         IN  <<first>> \o Fill(level, Tail(list), labs,
                                from + NumVertices(level, <<h>>))

\* ------------------------------------------------------------------- state
VARIABLES
    pc,            \* position of the running code
    caller,        \* who called compute_bbox_from_geoarrow_polygon
    geometry_col,  \* its argument
    n_rows, row_idx,
    minx, miny, maxx, maxy,   \* the four numpy arrays
    all_x, all_y,             \* the per-row coordinate lists
    args,          \* sys.argv[1:]
    fs,            \* the files, by path
    input_path, output_path,
    table,         \* the table of add_bbox_columns
    status,        \* how the last run of the script ended
    runs,          \* the number of runs of the script started so far
    history        \* one record per finished run: the files before and after

scanVars == <<geometry_col, n_rows, row_idx, minx, miny, maxx, maxy, all_x, all_y>>
toolVars == <<args, fs, input_path, output_path, table, status, runs, history>>
vars == <<pc, caller, scanVars, toolVars>>

\* ------------------------------------------------------- library functions
\* np.full(n, v)
RECURSIVE Filled(_, _)
Filled(n, v) == IF n <= 0 THEN <<>> ELSE Append(Filled(n - 1, v), v)
\* np.full allocating one slot too few
NpFullShort(n, v) == Filled(n - 1, v)
NpFull(n, v) == Filled(n, v)

RECURSIVE PyMinFrom(_, _), PyMaxFrom(_, _)
PyMinFrom(best, s) ==
    IF s = <<>> THEN best
    ELSE PyMinFrom(IF FLt(Head(s), best) THEN Head(s) ELSE best, Tail(s))
PyMaxFrom(best, s) ==
    IF s = <<>> THEN best
    ELSE PyMaxFrom(IF FGt(Head(s), best) THEN Head(s) ELSE best, Tail(s))
\* min taken as the first element, max as the last
PyMinFirst(s) == Head(s)
PyMaxLast(s) == s[Len(s)]
\* Python's min(list) and max(list) of a non-empty list: the first element
\* is kept until a later one compares strictly smaller (larger).
PyMin(s) == PyMinFrom(Head(s), Tail(s))
PyMax(s) == PyMaxFrom(Head(s), Tail(s))

\* ------------------------------------- compute_bbox_from_geoarrow_polygon
\* for vertex in ring: skip None, append vertex[c]
RECURSIVE RingCoords(_, _)
RingCoords(ring, c) ==
    IF ring = <<>> THEN <<>>
    ELSE (IF IsNone(Head(ring)) THEN <<>> ELSE <<Get(Head(ring))[c]>>)
         \o RingCoords(Tail(ring), c)

\* the test of line 47 left out: a None ring is iterated, which raises
HasNoneRing(polygon) ==
    \E p \in 1..Len(polygon) :
        /\ ~IsNone(polygon[p])
        /\ \E r \in 1..Len(Get(polygon[p])) : IsNone(Get(polygon[p])[r])

\* for ring in poly: skip None
RECURSIVE PolyCoords(_, _)
PolyCoords(poly, c) ==
    IF poly = <<>> THEN <<>>
    ELSE (IF IsNone(Head(poly)) THEN <<>> ELSE RingCoords(Get(Head(poly)), c))
         \o PolyCoords(Tail(poly), c)

\* for poly in polygon: skip None
RECURSIVE CollectCoords(_, _)
CollectCoords(polygon, c) ==
    IF polygon = <<>> THEN <<>>
    ELSE (IF IsNone(Head(polygon)) THEN <<>> ELSE PolyCoords(Get(Head(polygon)), c))
         \o CollectCoords(Tail(polygon), c)

\* lines 34-61 as a function of the cell: the quadruple written for one row
NaNQuad == <<NaN, NaN, NaN, NaN>>
BBoxRow(cell) ==
    IF IsNone(cell) THEN NaNQuad
    ELSE LET xs == CollectCoords(Get(cell), "x")
             ys == CollectCoords(Get(cell), "y")
         IN  IF xs # <<>>
             THEN <<PyMin(xs), PyMin(ys), PyMax(xs), PyMax(ys)>>
             ELSE NaNQuad

\* lines 22-63 as a function of the column: the arrays are seeded, the loop
\* writes row after row, and the four arrays are returned
RECURSIVE ScanFrom(_, _, _)
ScanFrom(col, i, out) ==
    IF i > Len(col) THEN out
    ELSE LET q == BBoxRow(col[i])
         IN  ScanFrom(col, i + 1, <<[out[1] EXCEPT ![i] = q[1]],
                                    [out[2] EXCEPT ![i] = q[2]],
                                    [out[3] EXCEPT ![i] = q[3]],
                                    [out[4] EXCEPT ![i] = q[4]]>>)
ComputeBBox(col) ==
    ScanFrom(col, 1, <<NpFull(Len(col), PInf), NpFull(Len(col), PInf),
                       NpFull(Len(col), NInf), NpFull(Len(col), NInf)>>)

\* lines 22-28: n_rows and the four arrays seeded with the infinities
Enter ==
    /\ pc = "enter"
    /\ n_rows' = Len(geometry_col)
    /\ minx' = NpFull(Len(geometry_col), PInf)
    /\ miny' = NpFull(Len(geometry_col), PInf)
    /\ maxx' = NpFull(Len(geometry_col), NInf)
    /\ maxy' = NpFull(Len(geometry_col), NInf)
    /\ row_idx' = 1
    /\ pc' = "loop"
    /\ UNCHANGED <<caller, geometry_col, all_x, all_y, toolVars>>

\* lines 34-37: the cell is None
RowNone ==
    /\ pc = "loop"
    /\ row_idx <= n_rows
    /\ IsNone(geometry_col[row_idx])
    /\ minx' = [minx EXCEPT ![row_idx] = NaN]
    /\ miny' = [miny EXCEPT ![row_idx] = NaN]
    /\ maxx' = [maxx EXCEPT ![row_idx] = NaN]
    /\ maxy' = [maxy EXCEPT ![row_idx] = NaN]
    /\ row_idx' = row_idx + 1
    /\ UNCHANGED <<pc, caller, geometry_col, n_rows, all_x, all_y, toolVars>>

\* line 47 left out: TypeError on a None ring
RowCollectNoRingTest ==
    /\ pc = "loop"
    /\ row_idx <= n_rows
    /\ ~IsNone(geometry_col[row_idx])
    /\ IF HasNoneRing(Get(geometry_col[row_idx]))
       THEN /\ pc' = "raised"
            /\ UNCHANGED <<all_x, all_y>>
       ELSE /\ all_x' = CollectCoords(Get(geometry_col[row_idx]), "x")
            /\ all_y' = CollectCoords(Get(geometry_col[row_idx]), "y")
            /\ pc' = "emit"
    /\ UNCHANGED <<caller, geometry_col, n_rows, row_idx, minx, miny, maxx, maxy, toolVars>>

\* the lists created once before the loop instead of once per row
RowCollectCarry ==
    /\ pc = "loop"
    /\ row_idx <= n_rows
    /\ ~IsNone(geometry_col[row_idx])
    /\ all_x' = all_x \o CollectCoords(Get(geometry_col[row_idx]), "x")
    /\ all_y' = all_y \o CollectCoords(Get(geometry_col[row_idx]), "y")
    /\ pc' = "emit"
    /\ UNCHANGED <<caller, geometry_col, n_rows, row_idx, minx, miny, maxx, maxy, toolVars>>

\* lines 39-53: fresh lists, then the three nested loops
RowCollect ==
    /\ pc = "loop"
    /\ row_idx <= n_rows
    /\ ~IsNone(geometry_col[row_idx])
    /\ all_x' = CollectCoords(Get(geometry_col[row_idx]), "x")
    /\ all_y' = CollectCoords(Get(geometry_col[row_idx]), "y")
    /\ pc' = "emit"
    /\ UNCHANGED <<caller, geometry_col, n_rows, row_idx, minx, miny, maxx, maxy, toolVars>>

\* the else branch of line 60 left out: an empty row keeps its seeds
RowEmitNoElse ==
    /\ pc = "emit"
    /\ IF all_x # <<>>
       THEN /\ minx' = [minx EXCEPT ![row_idx] = PyMin(all_x)]
            /\ maxx' = [maxx EXCEPT ![row_idx] = PyMax(all_x)]
            /\ miny' = [miny EXCEPT ![row_idx] = PyMin(all_y)]
            /\ maxy' = [maxy EXCEPT ![row_idx] = PyMax(all_y)]
       ELSE UNCHANGED <<minx, miny, maxx, maxy>>
    /\ row_idx' = row_idx + 1
    /\ pc' = "loop"
    /\ UNCHANGED <<caller, geometry_col, n_rows, all_x, all_y, toolVars>>

\* lines 55-61: min/max of the lists, or NaN when they are empty
RowEmit ==
    /\ pc = "emit"
    /\ IF all_x # <<>>
       THEN /\ minx' = [minx EXCEPT ![row_idx] = PyMin(all_x)]
            /\ maxx' = [maxx EXCEPT ![row_idx] = PyMax(all_x)]
            /\ miny' = [miny EXCEPT ![row_idx] = PyMin(all_y)]
            /\ maxy' = [maxy EXCEPT ![row_idx] = PyMax(all_y)]
       ELSE /\ minx' = [minx EXCEPT ![row_idx] = NaN]
            /\ miny' = [miny EXCEPT ![row_idx] = NaN]
            /\ maxx' = [maxx EXCEPT ![row_idx] = NaN]
            /\ maxy' = [maxy EXCEPT ![row_idx] = NaN]
    /\ row_idx' = row_idx + 1
    /\ pc' = "loop"
    /\ UNCHANGED <<caller, geometry_col, n_rows, all_x, all_y, toolVars>>

\* line 63: return minx, miny, maxx, maxy
Return ==
    /\ pc = "loop"
    /\ row_idx > n_rows
    /\ pc' = "returned"
    /\ UNCHANGED <<caller, scanVars, toolVars>>

\* ------------------------------------------------------------------ tables
\* A table is a list of columns <<name, data>>; a file is absent, holds a
\* table, holds the beginning of a table only, or holds something else.
ColumnNames(t) == [i \in 1..Len(t) |-> t[i][1]]
HasColumn(t, name) == \E i \in 1..Len(t) : t[i][1] = name
\* table.column(name), for a name the table has
ColumnData(t, name) == t[CHOOSE i \in 1..Len(t) : t[i][1] = name][2]
\* table.append_column(name, data): no test for a name already there
AppendColumn(t, name, data) == Append(t, <<name, data>>)

NoFile == [kind |-> "absent", table |-> <<>>]
Garbage == [kind |-> "garbage", table |-> <<>>]
TableFile(t) == [kind |-> "table", table |-> t]
\* what open(path, 'wb') leaves, and what an interrupted write leaves
Truncated == [kind |-> "truncated", table |-> <<>>]

BBoxNames == <<"bbox_minx", "bbox_miny", "bbox_maxx", "bbox_maxy">>

\* ------------------------------------------------------------------ inputs
InPath == "in.arrow"
OutPath == "out.arrow"
Paths == {InPath, OutPath}

\* A column of n floats that the input already holds under a bbox name.
OldColumn(n) == NpFull(n, 5)
\* The bbox names an input table may already hold: none, all four, or some.
OldBBoxNames ==
    {<<>>, BBoxNames, <<"bbox_minx">>, <<"bbox_miny">>}
RECURSIVE Count(_, _)
Count(n, from) == IF n <= 0 THEN <<>> ELSE <<from>> \o Count(n - 1, from + 1)
\* The input tables: an optional key column, an optional geometry column, and
\* the bbox columns already there.
MakeTable(withKey, withGeometry, geometry, old) ==
    (IF withKey THEN <<<<"catchID", Count(Len(geometry), 101)>>>> ELSE <<>>)
    \o (IF withGeometry THEN <<<<"geometry", geometry>>>> ELSE <<>>)
    \o [i \in 1..Len(old) |-> <<old[i], OldColumn(Len(geometry))>>]
OldTable == <<<<"catchID", <<100>>>>>>

\* ------------------------------------------------------- add_bbox_columns
Finish(how) ==
    /\ pc' = "exit"
    /\ status' = how
    /\ history' = Append(history, [status |-> how, before |-> history[Len(history)].after,
                                   after |-> fs'])

\* lines 103-111: the script's entry
Usage ==
    /\ pc = "main"
    /\ Len(args) < 1
    /\ fs' = fs
    /\ Finish("usage")
    /\ UNCHANGED <<caller, scanVars, args, input_path, output_path, table, runs>>

Main ==
    /\ pc = "main"
    /\ Len(args) >= 1
    /\ input_path' = args[1]
    /\ output_path' = IF Len(args) > 1 THEN args[2] ELSE args[1]
    /\ pc' = "read"
    /\ UNCHANGED <<caller, scanVars, args, fs, table, status, runs, history>>

\* lines 70-72: the whole table is read
ReadTable ==
    /\ pc = "read"
    /\ fs[input_path].kind = "table"
    /\ table' = fs[input_path].table
    /\ pc' = "check"
    /\ UNCHANGED <<caller, scanVars, args, fs, input_path, output_path, status, runs, history>>

\* lines 70-72 raising: there is no such file, or it holds no table
ReadFails ==
    /\ pc = "read"
    /\ fs[input_path].kind # "table"
    /\ fs' = fs
    /\ Finish(IF fs[input_path].kind = "absent" THEN "FileNotFoundError" ELSE "ArrowInvalid")
    /\ UNCHANGED <<caller, scanVars, args, input_path, output_path, table, runs>>

\* lines 76-80: the guard
AlreadyThere ==
    /\ pc = "check"
    /\ HasColumn(table, "bbox_minx")
    /\ fs' = fs
    /\ Finish("skipped")
    /\ UNCHANGED <<caller, scanVars, args, input_path, output_path, table, runs>>

\* the sink opened before the geometry column is looked up
MissingGeometryAfterOpen ==
    /\ pc = "check"
    /\ ~HasColumn(table, "bbox_minx")
    /\ ~HasColumn(table, "geometry")
    /\ fs' = [fs EXCEPT ![output_path] = Truncated]
    /\ Finish("KeyError")
    /\ UNCHANGED <<caller, scanVars, args, input_path, output_path, table, runs>>

\* line 83 raising: the table has no geometry column
MissingGeometry ==
    /\ pc = "check"
    /\ ~HasColumn(table, "bbox_minx")
    /\ ~HasColumn(table, "geometry")
    /\ fs' = fs
    /\ Finish("KeyError")
    /\ UNCHANGED <<caller, scanVars, args, input_path, output_path, table, runs>>

\* lines 83-86: the geometry column is handed to the scan
CallCompute ==
    /\ pc = "check"
    /\ ~HasColumn(table, "bbox_minx")
    /\ HasColumn(table, "geometry")
    /\ geometry_col' = ColumnData(table, "geometry")
    /\ caller' = "add_bbox_columns"
    /\ pc' = "enter"
    /\ UNCHANGED <<n_rows, row_idx, minx, miny, maxx, maxy, all_x, all_y, toolVars>>

\* the four columns appended as minx, maxx, miny, maxy
AppendColumnsSwapped ==
    /\ pc = "returned"
    /\ caller = "add_bbox_columns"
    /\ table' = AppendColumn(AppendColumn(AppendColumn(AppendColumn(table,
                    "bbox_minx", minx), "bbox_miny", maxx), "bbox_maxx", miny),
                    "bbox_maxy", maxy)
    /\ pc' = "open"
    /\ UNCHANGED <<caller, scanVars, args, fs, input_path, output_path, status, runs, history>>

\* lines 88-92: the four columns are appended
AppendColumns ==
    /\ pc = "returned"
    /\ caller = "add_bbox_columns"
    /\ table' = AppendColumn(AppendColumn(AppendColumn(AppendColumn(table,
                    "bbox_minx", minx), "bbox_miny", miny), "bbox_maxx", maxx),
                    "bbox_maxy", maxy)
    /\ pc' = "open"
    /\ UNCHANGED <<caller, scanVars, args, fs, input_path, output_path, status, runs, history>>

\* line 95: open(output_path, 'wb') empties the file
OpenSink ==
    /\ pc = "open"
    /\ fs' = [fs EXCEPT ![output_path] = Truncated]
    /\ pc' = "write"
    /\ UNCHANGED <<caller, scanVars, args, input_path, output_path, table, status, runs, history>>

\* line 95 raising: the file cannot be opened for writing
OpenSinkFails ==
    /\ pc = "open"
    /\ fs' = fs
    /\ Finish("OSError")
    /\ UNCHANGED <<caller, scanVars, args, input_path, output_path, table, runs>>

\* lines 96-100: the table is written and the file closed
WriteTable ==
    /\ pc = "write"
    /\ fs' = [fs EXCEPT ![output_path] = TableFile(table)]
    /\ Finish("done")
    /\ UNCHANGED <<caller, scanVars, args, input_path, output_path, table, runs>>

\* lines 96-98 raising part way: the file keeps what was written so far
WriteFails ==
    /\ pc = "write"
    /\ fs' = [fs EXCEPT ![output_path] = Truncated]
    /\ Finish("OSError")
    /\ UNCHANGED <<caller, scanVars, args, input_path, output_path, table, runs>>

\* the script is run again with the same arguments
RunAgain ==
    /\ pc = "exit"
    /\ runs < MaxRuns
    /\ runs' = runs + 1
    /\ pc' = "main"
    /\ caller' = "direct"
    /\ geometry_col' = <<>>
    /\ n_rows' = 0 /\ row_idx' = 0
    /\ minx' = <<>> /\ miny' = <<>> /\ maxx' = <<>> /\ maxy' = <<>>
    /\ all_x' = <<>> /\ all_y' = <<>>
    /\ table' = <<>>
    /\ input_path' = "" /\ output_path' = ""
    /\ UNCHANGED <<args, fs, status, history>>

\* --------------------------------------------------------- specifications
NoToolState ==
    /\ args = <<>>
    /\ fs = [p \in Paths |-> NoFile]
    /\ input_path = "" /\ output_path = ""
    /\ table = <<>>
    /\ status = ""
    /\ runs = 0
    /\ history = <<>>

NoScanState ==
    /\ n_rows = 0
    /\ row_idx = 0
    /\ minx = <<>> /\ miny = <<>> /\ maxx = <<>> /\ maxy = <<>>
    /\ all_x = <<>> /\ all_y = <<>>

\* The scan called directly on a geometry column.
Init ==
    /\ \E shape \in ShapesUpTo(MaxNodes) :
         \E labs \in [1..NumVertices(0, shape) -> Vertices] :
            geometry_col = Fill(0, shape, labs, 0)
    /\ pc = "enter"
    /\ caller = "direct"
    /\ NoScanState
    /\ NoToolState

Scan == Enter \/ RowNone \/ RowCollect \/ RowEmit \/ Return
Next == Scan

Spec == Init /\ [][Next]_vars

\* The script run on the files, once or several times.
InitTool ==
    /\ pc = "main"
    /\ caller = "direct"
    /\ geometry_col = <<>>
    /\ NoScanState
    /\ args \in {<<>>, <<InPath>>, <<InPath, OutPath>>}
    /\ \E outFile \in {NoFile, TableFile(OldTable)} :
          /\ Len(args) < 2 => outFile = NoFile
          /\ \/ \E inFile \in {NoFile, Garbage} :
                   fs = [p \in Paths |-> IF p = InPath THEN inFile ELSE outFile]
             \/ \E k \in BOOLEAN, g \in BOOLEAN, old \in OldBBoxNames,
                   shape \in ShapesUpTo(MaxTableNodes) :
                   \E labs \in [1..NumVertices(0, shape) -> Vertices] :
                      fs = [p \in Paths |->
                               IF p = InPath
                               THEN TableFile(MakeTable(k, g, Fill(0, shape, labs, 0), old))
                               ELSE outFile]
    /\ input_path = "" /\ output_path = ""
    /\ table = <<>>
    /\ status = ""
    /\ runs = 1
    /\ history = <<[status |-> "", before |-> fs, after |-> fs]>>

NextTool ==
    \/ Usage \/ Main \/ ReadTable \/ ReadFails \/ AlreadyThere \/ MissingGeometry
    \/ CallCompute \/ Scan \/ AppendColumns \/ OpenSink \/ OpenSinkFails
    \/ WriteTable \/ WriteFails \/ RunAgain

SpecTool == InitTool /\ [][NextTool]_vars

\* ------------------------------------------------- vocabulary of the claims
\* The vertices of a cell that are visited: those that are not None, in rings
\* that are not None, of polygons that are not None.
Present(list) == {Get(list[i]) : i \in {j \in 1..Len(list) : ~IsNone(list[j])}}
UsableVertices(cell) ==
    IF IsNone(cell) THEN {}
    ELSE UNION {UNION {Present(ring) : ring \in Present(poly)}
                : poly \in Present(Get(cell))}
Xs(cell) == {v.x : v \in UsableVertices(cell)}
Ys(cell) == {v.y : v \in UsableVertices(cell)}
NaNFree(cell) == NaN \notin Xs(cell) \cup Ys(cell)

Rows == 1..Len(geometry_col)
Quad(i) == <<minx[i], miny[i], maxx[i], maxy[i]>>
Returned == pc = "returned"

\* The cell with every None polygon, ring and vertex removed.
NotNone(o) == ~IsNone(o)
StripRing(ring) == SelectSeq(ring, NotNone)
StripPoly(poly) ==
    LET rings == SelectSeq(poly, NotNone)
    IN  [r \in 1..Len(rings) |-> Some(StripRing(Get(rings[r])))]
StripCell(cell) ==
    IF IsNone(cell) THEN None
    ELSE LET polys == SelectSeq(Get(cell), NotNone)
         IN  Some([p \in 1..Len(polys) |-> Some(StripPoly(Get(polys[p])))])

\* Every rearrangement of a cell: the polygons of the multipolygon, the rings
\* of each polygon and the vertices of each ring, each in any order.
Reorder(list) ==
    {[i \in 1..Len(list) |-> list[p[i]]] : p \in Permutations(1..Len(list))}
RECURSIVE ElementWise(_, _), NodeVariants(_, _), Rearrangements(_, _)
ElementWise(level, list) ==
    IF list = <<>> THEN {<<>>}
    ELSE {<<h>> \o t : h \in NodeVariants(level, Head(list)),
                       t \in ElementWise(level, Tail(list))}
NodeVariants(level, node) ==
    IF IsNone(node) \/ level = VertexLevel THEN {node}
    ELSE {Some(l) : l \in Rearrangements(level + 1, Get(node))}
Rearrangements(level, list) == UNION {Reorder(l) : l \in ElementWise(level, list)}

\* ------------------------------------------------------------------ claims
\* C1: a row with no usable vertex (None cell, empty multipolygon, or only
\* None/empty polygons, rings and vertices) is returned as NaN in all four
\* arrays; the infinities the arrays are seeded with never remain there.
C1_EmptyRowIsNaN ==
    Returned =>
        \A i \in Rows :
            UsableVertices(geometry_col[i]) = {} => Quad(i) = NaNQuad
C1_Witness ==
    /\ Returned
    /\ \E i \in Rows :
          /\ ~IsNone(geometry_col[i])
          /\ Get(geometry_col[i]) # <<>>
          /\ UsableVertices(geometry_col[i]) = {}
          /\ Quad(i) = NaNQuad

\* C2 as stated: for every row with a usable vertex the quadruple bounds
\* every usable vertex on both axes and each of its four values is the
\* coordinate of some usable vertex of the row.
TightBox(i) ==
    LET cell == geometry_col[i]
    IN  /\ \A v \in UsableVertices(cell) :
              /\ FLe(minx[i], v.x) /\ FLe(v.x, maxx[i])
              /\ FLe(miny[i], v.y) /\ FLe(v.y, maxy[i])
        /\ minx[i] \in Xs(cell) /\ maxx[i] \in Xs(cell)
        /\ miny[i] \in Ys(cell) /\ maxy[i] \in Ys(cell)
C2_TightForEveryRow ==
    Returned =>
        \A i \in Rows : UsableVertices(geometry_col[i]) # {} => TightBox(i)

\* C2 amended: the same, for every row with a usable vertex none of whose
\* usable vertices has a NaN coordinate.
C2_TightWithoutNaN ==
    Returned =>
        \A i \in Rows :
            (UsableVertices(geometry_col[i]) # {} /\ NaNFree(geometry_col[i]))
                => TightBox(i)
\* a polygon with an exterior ring and a hole ring, each bringing one bound
C2_Witness ==
    /\ Returned
    /\ \E i \in Rows :
          /\ ~IsNone(geometry_col[i])
          /\ \E p \in 1..Len(Get(geometry_col[i])) :
                /\ ~IsNone(Get(geometry_col[i])[p])
                /\ Len(Get(Get(geometry_col[i])[p])) = 2
                /\ \A r \in 1..2 :
                      /\ ~IsNone(Get(Get(geometry_col[i])[p])[r])
                      /\ Present(Get(Get(Get(geometry_col[i])[p])[r])) # {}
          /\ NaNFree(geometry_col[i])
          /\ FLt(minx[i], maxx[i])
          /\ FLt(miny[i], maxy[i])
          /\ TightBox(i)

\* C3: each returned array has as many entries as the column has rows (the
\* empty column gives four empty arrays), and entry i is the one of row i:
\* NaN when row i has no usable vertex, coordinates of row i otherwise.
C3_ShapePreserved ==
    /\ pc # "enter" =>
          /\ Len(minx) = Len(geometry_col) /\ Len(miny) = Len(geometry_col)
          /\ Len(maxx) = Len(geometry_col) /\ Len(maxy) = Len(geometry_col)
    /\ Returned =>
          \A i \in Rows :
              IF UsableVertices(geometry_col[i]) = {}
              THEN Quad(i) = NaNQuad
              ELSE /\ minx[i] \in Xs(geometry_col[i])
                   /\ maxx[i] \in Xs(geometry_col[i])
                   /\ miny[i] \in Ys(geometry_col[i])
                   /\ maxy[i] \in Ys(geometry_col[i])
\* two rows that cannot be mistaken for one another
C3_Witness ==
    /\ Returned
    /\ Len(geometry_col) = 2
    /\ Len(minx) = 2
    /\ Quad(1) = NaNQuad
    /\ Quad(2) # NaNQuad

\* C4: for every split point, the results over the two halves of the column,
\* concatenated, are the four arrays computed over the whole column: row i
\* depends on cell i alone and nothing is carried from one row to the next.
C4_RowIndependence ==
    Returned =>
        \A k \in 0..Len(geometry_col) :
            LET left == ComputeBBox(SubSeq(geometry_col, 1, k))
                right == ComputeBBox(SubSeq(geometry_col, k + 1, Len(geometry_col)))
            IN  /\ left[1] \o right[1] = minx
                /\ left[2] \o right[2] = miny
                /\ left[3] \o right[3] = maxx
                /\ left[4] \o right[4] = maxy
\* an empty row after a row with vertices
C4_Witness ==
    /\ Returned
    /\ Len(geometry_col) >= 2
    /\ UsableVertices(geometry_col[1]) # {}
    /\ ~IsNone(geometry_col[2])
    /\ UsableVertices(geometry_col[2]) = {}
    /\ Quad(2) = NaNQuad

\* C5 as stated: visiting the vertices of a row in any other order (polygons,
\* rings or vertices rearranged) gives the identical quadruple.
C5_OrderIndependent ==
    Returned =>
        \A i \in Rows :
            \A cell \in NodeVariants(0, geometry_col[i]) : BBoxRow(cell) = Quad(i)

\* C5 amended: the same, for every row none of whose usable vertices has a
\* NaN coordinate.
C5_OrderIndependentWithoutNaN ==
    Returned =>
        \A i \in Rows :
            NaNFree(geometry_col[i]) =>
                \A cell \in NodeVariants(0, geometry_col[i]) : BBoxRow(cell) = Quad(i)
\* a row with several visiting orders and different vertices
C5_Witness ==
    /\ Returned
    /\ \E i \in Rows :
          /\ NaNFree(geometry_col[i])
          /\ Cardinality(UsableVertices(geometry_col[i])) >= 2
          /\ Cardinality(NodeVariants(0, geometry_col[i])) >= 2
          /\ \A cell \in NodeVariants(0, geometry_col[i]) : BBoxRow(cell) = Quad(i)

\* C9: a None polygon, ring or vertex contributes nothing and never raises:
\* every row's quadruple is the one of the same cell with its None polygons,
\* rings and vertices removed (scenario C: (1,1),(2,2) beside a polygon
\* holding a None ring gives (1,1,2,2)).
ScenarioC ==
    Some(<<Some(<<Some(<<Some([x |-> 1, y |-> 1]), Some([x |-> 2, y |-> 2])>>)>>),
           Some(<<None>>)>>)
C9_NoneContributesNothing ==
    /\ pc # "raised"
    /\ Returned =>
          /\ BBoxRow(ScenarioC) = <<1, 1, 2, 2>>
          /\ \A i \in Rows : Quad(i) = BBoxRow(StripCell(geometry_col[i]))
\* a None ring beside a ring with a vertex
C9_Witness ==
    /\ Returned
    /\ \E i \in Rows :
          /\ ~IsNone(geometry_col[i])
          /\ HasNoneRing(Get(geometry_col[i]))
          /\ UsableVertices(geometry_col[i]) # {}
          /\ StripCell(geometry_col[i]) # geometry_col[i]
          /\ Quad(i) = BBoxRow(StripCell(geometry_col[i]))
\* -------------------------------------------- vocabulary of the tool claims
\* The finished runs of add_bbox_columns (entry 1 of history holds the files
\* before the first run; without an argument the function is never called).
FinishedRuns == IF Len(args) < 1 THEN {} ELSE 2..Len(history)
Dest == IF Len(args) > 1 THEN args[2] ELSE args[1]
InputOf(j) == history[j].before[args[1]]
WrittenBy(j) == history[j].after[Dest]
Occurrences(t, name) == Cardinality({i \in 1..Len(t) : t[i][1] = name})
HasNoBBox(t) == \A b \in 1..4 : ~HasColumn(t, BBoxNames[b])
HasEveryBBox(t) == \A b \in 1..4 : HasColumn(t, BBoxNames[b])
\* The input table followed by the four columns the scan gives for it.
Augmented(t) ==
    LET box == ComputeBBox(ColumnData(t, "geometry"))
    IN  t \o <<<<"bbox_minx", box[1]>>, <<"bbox_miny", box[2]>>,
               <<"bbox_maxx", box[3]>>, <<"bbox_maxy", box[4]>>>>

\* C6: a table that already holds the four bbox names is left alone (nothing
\* computed, appended or written); so however often the script is run in
\* place, the file stays the table the first run wrote, with each bbox name
\* in it exactly once.
C6_Idempotent ==
    /\ \A j \in FinishedRuns :
          (InputOf(j).kind = "table" /\ HasEveryBBox(InputOf(j).table))
              => /\ history[j].status = "skipped"
                 /\ history[j].after = history[j].before
    /\ (Len(args) = 1 /\ Len(history) >= 2 /\ history[2].status = "done")
          => /\ \A j \in FinishedRuns : WrittenBy(j) = WrittenBy(2)
             /\ \A b \in 1..4 : Occurrences(WrittenBy(2).table, BBoxNames[b]) = 1

\* The part of C6 that the code keeps: a run on a table that holds the four
\* names changes nothing, and after a first run in place that wrote, every
\* later run leaves the file as it is; the names are there once each when
\* the first input held none of them.
C6_GuardedRunsAreNoOps ==
    /\ \A j \in FinishedRuns :
          (InputOf(j).kind = "table" /\ HasEveryBBox(InputOf(j).table))
              => /\ history[j].status = "skipped"
                 /\ history[j].after = history[j].before
    /\ (Len(args) = 1 /\ Len(history) >= 2 /\ history[2].status = "done")
          => /\ \A j \in FinishedRuns : WrittenBy(j) = WrittenBy(2)
             /\ HasNoBBox(InputOf(2).table) =>
                   \A b \in 1..4 : Occurrences(WrittenBy(2).table, BBoxNames[b]) = 1

\* C7: a run either writes the complete augmented table or fails and leaves
\* no output: whatever fails, the destination never ends up holding a
\* truncated or partly written table, in place or not.
C7_AllOrNothing ==
    \A j \in FinishedRuns :
        /\ history[j].status = "done" =>
              WrittenBy(j) = TableFile(Augmented(InputOf(j).table))
        /\ WrittenBy(j).kind = "truncated" =>
              history[j].before[Dest].kind = "truncated"

\* C8: an input table with neither a geometry column nor bbox columns makes
\* the run fail with an error before anything is computed or written: no
\* file is created or modified.
C8_MissingGeometry ==
    /\ \A j \in FinishedRuns :
          (/\ InputOf(j).kind = "table"
           /\ ~HasColumn(InputOf(j).table, "geometry")
           /\ HasNoBBox(InputOf(j).table))
              => /\ history[j].status = "KeyError"
                 /\ history[j].after = history[j].before
    /\ (pc = "exit" /\ status = "KeyError") =>
          (geometry_col = <<>> /\ NoScanState /\ caller = "direct")
\* the destination was not there and still is not
C8_Witness ==
    /\ pc = "exit"
    /\ status = "KeyError"
    /\ Len(args) = 2
    /\ InputOf(Len(history)).kind = "table"
    /\ Len(InputOf(Len(history)).table) = 1
    /\ fs[OutPath] = NoFile
    /\ fs[InPath] = InputOf(Len(history))

\* C10: for an input table with a geometry column and no bbox column, the
\* table written has the same rows, the original columns unchanged in name,
\* order and content, and then bbox_minx, bbox_miny, bbox_maxx, bbox_maxy, in
\* this order, each as long as the table and holding what the scan returns
\* for the geometry column.
C10_Frame ==
    \A j \in FinishedRuns :
        (/\ InputOf(j).kind = "table"
         /\ HasColumn(InputOf(j).table, "geometry")
         /\ HasNoBBox(InputOf(j).table)
         /\ history[j].status = "done")
            => LET t == InputOf(j).table
                   w == WrittenBy(j).table
               IN  /\ WrittenBy(j).kind = "table"
                   /\ Len(w) = Len(t) + 4
                   /\ SubSeq(w, 1, Len(t)) = t
                   /\ w = Augmented(t)
                   /\ \A c \in 1..4 :
                         /\ w[Len(t) + c][1] = BBoxNames[c]
                         /\ Len(w[Len(t) + c][2]) = Len(ColumnData(t, "geometry"))
\* a key column and a geometry column with a row that has a box
C10_Witness ==
    /\ pc = "exit"
    /\ status = "done"
    /\ Len(args) = 2
    /\ LET t == InputOf(Len(history)).table
       IN  /\ Len(t) = 2
           /\ HasColumn(t, "geometry")
           /\ \E i \in 1..Len(ColumnData(t, "geometry")) :
                 UsableVertices(ColumnData(t, "geometry")[i]) # {}
           /\ fs[OutPath] = TableFile(Augmented(t))
           /\ fs[InPath] = TableFile(t)
====
